---- MODULE Spec2Model ----
(***************************************************************************)
(* COSMIC Process Killer: the process inventory / lifecycle-control core   *)
(* (src/src/process.rs) and the state machine that the two front-ends      *)
(* (src/src/app.rs panel applet, src/src/standalone.rs window) build on    *)
(* it.  Popup and window management, configuration and localisation are   *)
(* not modelled.                                                           *)
(*                                                                         *)
(* Strings are sequences of code points, so that starts_with, contains,    *)
(* to_lowercase and the lexicographic order are computed as Rust computes  *)
(* them.  Option<T> is a sequence of length 0 (None) or 1 (Some).          *)
(***************************************************************************)
EXTENDS Integers, Sequences, FiniteSets, TLC

VARIABLES
    os,                 \* the operating system's process table: pid -> process
    system,             \* ProcessManager.system: the table as of the last refresh
    frontend,           \* which program runs: "applet" | "standalone" | "core" (the API alone)
    processes,          \* Vec<ProcessInfo>: the displayed list
    show_all,           \* bool
    sort_by,            \* SortBy
    search_query,       \* String
    selected_process,   \* Option<ProcessInfo>
    confirmation_mode,  \* Option<ConfirmationMode>: "None" | "Kill" | "ForceKill"
    toast,              \* Option<Toast>
    steps,              \* how many messages, calls and process events there have been
    last                \* history: the last call or message, its OS calls and its result

vars == <<os, system, frontend, processes, show_all, sort_by, search_query,
          selected_process, confirmation_mode, toast, steps, last>>

-----------------------------------------------------------------------------
(* Bounds of the model *)

MaxSteps == 4

(* Program constants *)

TRUNCATE == 10       \* processes.truncate(10)

(* A u32 is written as two 16-bit limbs [hi, lo], its value being hi * 2^16 + lo:
   the values from 2^31 on are beyond the integers TLC computes with.  The pids of
   the process table are positive pid_t values and are written as plain integers;
   U32Of writes one as the u32 that ProcessInfo.pid holds. *)
Limb == 256 * 256
U32Of(n) == [hi |-> n \div Limb, lo |-> n % Limb]
U32Fits(pid) == pid.hi < Limb \div 2      \* the value is below 2^31
U32Value(pid) == pid.hi * Limb + pid.lo   \* defined where U32Fits

-----------------------------------------------------------------------------
(* Strings *)

None == <<>>
Some(x) == <<x>>
IsSome(o) == Len(o) = 1
Unwrap(o) == o[1]

N_init    == <<105,110,105,116>>                                   \* "init"
N_Init    == <<73,110,105,116>>                                    \* "Init"
N_initd   == <<105,110,105,116,100>>                               \* "initd"
N_ini     == <<105,110,105>>                                       \* "ini"
N_systemd == <<115,121,115,116,101,109,100>>                       \* "systemd"
N_logind  == <<115,121,115,116,101,109,100,45,108,111,103,105,110,100>> \* "systemd-logind"
N_sshd    == <<115,115,104,100>>                                   \* "sshd"
N_sshd_s  == <<115,115,104,100,45,115,101,115,115,105,111,110>>    \* "sshd-session"
N_SSHD    == <<83,83,72,68>>                                       \* "SSHD"
N_myapp   == <<109,121,97,112,112>>                                \* "myapp"
N_MyApp   == <<77,121,65,112,112>>                                 \* "MyApp"
N_other   == <<111,116,104,101,114>>                               \* "other"
N_kswapd0 == <<107,115,119,97,112,100,48>>                         \* "kswapd0"
Q_my      == <<109,121>>                                           \* "my"

\* str::starts_with
StartsWith(s, p) == Len(p) <= Len(s) /\ SubSeq(s, 1, Len(p)) = p

\* str::contains
Contains(s, q) == \E i \in 0..(Len(s) - Len(q)) : SubSeq(s, i + 1, i + Len(q)) = q

\* str::to_lowercase on the ASCII range
LowerChar(c) == IF c >= 65 /\ c <= 90 THEN c + 32 ELSE c
ToLower(s) == [i \in 1..Len(s) |-> LowerChar(s[i])]

\* Ord for str: lexicographic on code points; -1, 0, 1
RECURSIVE StrCmp(_, _)
StrCmp(a, b) ==
    IF a = <<>> /\ b = <<>> THEN 0
    ELSE IF a = <<>> THEN -1
    ELSE IF b = <<>> THEN 1
    ELSE IF a[1] < b[1] THEN -1
    ELSE IF a[1] > b[1] THEN 1
    ELSE StrCmp(Tail(a), Tail(b))

\* u32::to_string
RECURSIVE PidString(_)
PidString(n) == IF n < 10 THEN <<48 + n>> ELSE Append(PidString(n \div 10), 48 + (n % 10))

-----------------------------------------------------------------------------
(* process.rs: classification *)

system_services ==
    << <<115,121,115,116,101,109,100>>,                                      \* systemd
       <<100,98,117,115,45,100,97,101,109,111,110>>,                         \* dbus-daemon
       <<100,98,117,115,45,98,114,111,107,101,114>>,                         \* dbus-broker
       <<78,101,116,119,111,114,107,77,97,110,97,103,101,114>>,              \* NetworkManager
       <<99,111,110,116,97,105,110,101,114,100>>,                            \* containerd
       <<100,111,99,107,101,114,100>>,                                       \* dockerd
       <<107,117,98,101,108,101,116>>,                                       \* kubelet
       <<99,111,114,101,100,110,115>>,                                       \* coredns
       <<115,115,104,100>>,                                                  \* sshd
       <<114,115,121,115,108,111,103,100>>,                                  \* rsyslogd
       <<99,114,111,110>>,                                                   \* cron
       <<97,116,100>>,                                                       \* atd
       <<112,111,108,107,105,116,100>>,                                      \* polkitd
       <<97,118,97,104,105,45,100,97,101,109,111,110>>,                      \* avahi-daemon
       <<99,117,112,115,100>>,                                               \* cupsd
       <<98,108,117,101,116,111,111,116,104,100>>,                           \* bluetoothd
       <<102,105,114,101,119,97,108,108,100>>,                               \* firewalld
       <<105,112,116,97,98,108,101,115>>,                                    \* iptables
       <<110,102,116,97,98,108,101,115>>,                                    \* nftables
       <<115,121,115,116,101,109,100,45,114,101,115,111,108,118,101,100>>,   \* systemd-resolved
       <<115,121,115,116,101,109,100,45,108,111,103,105,110,100>>,           \* systemd-logind
       <<115,121,115,116,101,109,100,45,117,100,101,118,100>> >>             \* systemd-udevd

critical_processes ==
    << <<105,110,105,116>>,                                \* init
       <<115,121,115,116,101,109,100>>,                    \* systemd
       <<107,116,104,114,101,97,100,100>>,                 \* kthreadd
       <<109,105,103,114,97,116,105,111,110>>,             \* migration
       <<114,99,117,95,115,99,104,101,100>>,               \* rcu_sched
       <<108,114,117,45,97,100,100,45,100,114,97,105,110>>, \* lru-add-drain
       <<119,97,116,99,104,100,111,103>>,                  \* watchdog
       <<99,112,117,104,112>>,                             \* cpuhp
       <<110,101,116,110,115>>,                            \* netns
       <<114,99,117,95,98,104>>,                           \* rcu_bh
       <<107,97,115,105,109,101,114>>,                     \* kasimer
       <<119,114,105,116,101,98,97,99,107>>,               \* writeback
       <<107,112,114,111,98,101>>,                         \* kprobe
       <<107,104,117,110,103,116,97,115,107,100>>,         \* khungtaskd
       <<111,111,109,95,114,101,97,112,101,114>>,          \* oom_reaper
       <<107,115,109,100>>,                                \* ksmd
       <<107,104,117,103,101,112,97,103,101,100>>,         \* khugepaged
       <<99,114,121,112,116,111>>,                         \* crypto
       <<107,105,110,116,101,103,114,105,116,121,100>>,    \* kintegrityd
       <<107,98,108,111,99,107,100>>,                      \* kblockd
       <<101,100,97,99,45,112,111,108,108,101,114>>,       \* edac-poller
       <<100,101,118,102,114,101,113,95,119,113>>,         \* devfreq_wq
       <<119,97,116,99,104,100,111,103,100>>,              \* watchdogd
       <<107,115,119,97,112,100,48>> >>                    \* kswapd0

\* a plausible slip: whole-name matching for the services as well
is_system_service_exact(name) ==
    \E i \in 1..Len(system_services) : system_services[i] = name

\* system_services.iter().any(|service| name.starts_with(service))
is_system_service(name) ==
    \E i \in 1..Len(system_services) : StartsWith(name, system_services[i])

\* a plausible slip: prefix matching for the critical set as well
is_critical_process_prefix(name) ==
    \E i \in 1..Len(critical_processes) : StartsWith(name, critical_processes[i])

\* critical_processes.contains(&name)
is_critical_process(name) ==
    \E i \in 1..Len(critical_processes) : critical_processes[i] = name

-----------------------------------------------------------------------------
(* process.rs: ProcessError / ProcessResult *)

Ok == [name |-> <<>>, kind |-> "Ok", msg |-> ""]
NotFound == [name |-> <<>>, kind |-> "NotFound", msg |-> ""]
PermissionDenied == [name |-> <<>>, kind |-> "PermissionDenied", msg |-> ""]
Protected(n) == [name |-> n, kind |-> "Protected", msg |-> ""]
SignalFailed(m) == [name |-> <<>>, kind |-> "SignalFailed", msg |-> m]
Unknown(m) == [name |-> <<>>, kind |-> "Unknown", msg |-> m]

\* not a ProcessError: the call did not return, the thread panicked
Panic == [name |-> <<>>, kind |-> "Panic", msg |-> "called Option::unwrap() on a None value"]

\* can_kill_process(&self, process)
can_kill_process(process) ==
    IF is_critical_process(process.name) THEN Protected(process.name) ELSE Ok

-----------------------------------------------------------------------------
(* The operating system: the process table and the kill(2) interface *)

\* One OS process: what sysinfo reads of it, and whether the caller may signal it.
Proc(name, cpu, mem, perm) ==
    [name |-> name, perm |-> perm, cpu_usage |-> cpu, memory |-> mem, status |-> "Run"]

\* f32::NAN, the one cpu_usage value that partial_cmp orders against nothing (the
\* other values are tenths of a percent)
NaN == -1

P_init  == Proc(N_init, 0, 10, FALSE)     \* the init process, owned by root
P_sshd  == Proc(N_sshd, 30, 30, FALSE)    \* a system service, owned by root
P_myapp == Proc(N_myapp, 875, 20, TRUE)   \* a user process (cpu_usage 87.5)
P_MyApp == Proc(N_MyApp, 30, 20, TRUE)    \* a user process, name differing in case
P_other == Proc(N_other, 30, 40, TRUE)    \* a user process (cpu_usage 3.0)
P_sshd_s == Proc(N_sshd_s, NaN, 10, FALSE) \* a service instance whose cpu_usage reads NaN
P_initd == Proc(N_initd, 30, 50, TRUE)    \* a user process named like a critical one
P_SSHD  == Proc(N_SSHD, 30, 5, TRUE)      \* a user process named like a service, in capitals

Remove(table, H) == [p \in (DOMAIN table) \ H |-> table[p]]
Insert(table, pid, proc) ==
    [p \in (DOMAIN table) \cup {pid} |-> IF p = pid THEN proc ELSE table[p]]

Permitted(table) == {p \in DOMAIN table : table[p].perm}

\* kill(2): the errno ("" for success) and the set of processes signalled.
\*   target > 0   the process with that pid
\*   target = 0   every process of the caller's process group (the caller included)
\*   target = -1  every process the caller may signal, except pid 1
\*   target < -1  every process of the process group -target
\* Group membership is not part of the table: it is the environment's choice.
sys_kill(table, target) ==
    IF target > 0 THEN
        IF target \notin DOMAIN table THEN {[errno |-> "ESRCH: No such process", hit |-> {}]}
        ELSE IF ~table[target].perm
             THEN {[errno |-> "EPERM: Operation not permitted", hit |-> {}]}
        ELSE {[errno |-> "", hit |-> {target}]}
    ELSE IF target = 0 THEN
        {[errno |-> "", hit |-> H] : H \in SUBSET Permitted(table)}
    ELSE IF target = -1 THEN
        IF Permitted(table) \ {1} = {}
        THEN {[errno |-> "ESRCH: No such process", hit |-> {}]}
        ELSE {[errno |-> "", hit |-> Permitted(table) \ {1}]}
    ELSE
        {[errno |-> "ESRCH: No such process", hit |-> {}]}
        \cup {[errno |-> "", hit |-> H] : H \in (SUBSET Permitted(table)) \ {{}}}

\* A world is the state a call runs in: the variables, and the OS calls made so far
\* in the current step.
RefreshCall == [target |-> 0, errno |-> "", hit |-> {}, call |-> "refresh", sig |-> ""]
KillCall(target, sig, o) ==
    [target |-> target, errno |-> o.errno, hit |-> o.hit, call |-> "kill", sig |-> sig]

\* nix::sys::signal::kill(pid, signal): the system call, its record, and its effect:
\* a signalled process is gone at once or is still there (it exits later, or never).
signal_kill(w, target, sig) ==
    UNION { { [errno |-> o.errno,
               w |-> [w EXCEPT !.os = t, !.calls = Append(@, KillCall(target, sig, o))]]
              : t \in {w.os, Remove(w.os, o.hit)} }
            : o \in sys_kill(w.os, target) }

-----------------------------------------------------------------------------
(* process.rs: ProcessManager *)

\* `pid as i32`: the same 32 bits read as two's complement
AsI32(pid) ==
    IF U32Fits(pid) THEN pid.hi * Limb + pid.lo ELSE (pid.hi - Limb) * Limb + pid.lo

\* ProcessInfo { pid, name, cpu_usage, memory, status, is_system }
ProcessInfo(pid, p) ==
    [pid |-> pid, name |-> p.name, cpu_usage |-> p.cpu_usage, memory |-> p.memory,
     status |-> p.status,
     is_system |-> is_system_service(p.name) \/ is_critical_process(p.name)]

\* a plausible slip: remove_dead_processes passed as false, exited processes stay
refresh_keeps_exited(w) ==
    [w EXCEPT !.system = [p \in (DOMAIN w.os) \cup (DOMAIN w.system) |->
                             IF p \in DOMAIN w.os THEN w.os[p] ELSE w.system[p]],
              !.calls = Append(@, RefreshCall)]

\* ProcessManager::refresh
refresh(w) == [w EXCEPT !.system = w.os, !.calls = Append(@, RefreshCall)]

\* a.partial_cmp(&b): None when either side is NaN
PartialCmp(a, b) ==
    IF a = NaN \/ b = NaN THEN None
    ELSE Some(IF a < b THEN -1 ELSE IF a > b THEN 1 ELSE 0)

\* a plausible slip: the Cpu comparator written the ascending way round
Before_cpu_ascending(a, b, key) ==
    CASE key = "Cpu"    -> Unwrap(PartialCmp(a.cpu_usage, b.cpu_usage)) = -1
      [] key = "Memory" -> a.memory > b.memory
      [] key = "Pid"    -> a.pid < b.pid
      [] key = "Name"   -> StrCmp(ToLower(a.name), ToLower(b.name)) < 0

\* The comparators handed to sort_by: a sorts strictly before b.
Before(a, b, key) ==
    CASE key = "Cpu"    -> Unwrap(PartialCmp(b.cpu_usage, a.cpu_usage)) = -1
      [] key = "Memory" -> a.memory > b.memory
      [] key = "Pid"    -> a.pid < b.pid
      [] key = "Name"   -> StrCmp(ToLower(a.name), ToLower(b.name)) < 0

\* a plausible slip: an unstable sort, which lets an element overtake its equals
RECURSIVE InsertSorted_before_equals(_, _, _)
InsertSorted_before_equals(x, s, key) ==
    IF s = <<>> THEN <<x>>
    ELSE IF ~Before(s[1], x, key) THEN <<x>> \o s
    ELSE <<s[1]>> \o InsertSorted_before_equals(x, Tail(s), key)

\* slice::sort_by is stable: an element goes after the elements it does not precede.
RECURSIVE InsertSorted(_, _, _)
InsertSorted(x, s, key) ==
    IF s = <<>> THEN <<x>>
    ELSE IF Before(x, s[1], key) THEN <<x>> \o s
    ELSE <<s[1]>> \o InsertSorted(x, Tail(s), key)

RECURSIVE StableSort(_, _)
StableSort(s, key) ==
    IF s = <<>> THEN <<>>
    ELSE InsertSorted(s[Len(s)], StableSort(SubSeq(s, 1, Len(s) - 1), key), key)

\* sort_by compares every element of a slice of two or more with some other element:
\* the Cpu comparator's unwrap() panics when one of them is NaN.
SortPanics(s, key) ==
    /\ key = "Cpu"
    /\ Len(s) >= 2
    /\ \E i, j \in 1..Len(s) : i # j /\ PartialCmp(s[j].cpu_usage, s[i].cpu_usage) = None

\* the pids of S in ascending and in descending order
RECURSIVE Ascending(_)
Ascending(S) ==
    IF S = {} THEN <<>>
    ELSE LET m == CHOOSE x \in S : \A y \in S : x <= y IN <<m>> \o Ascending(S \ {m})

Descending(S) == [i \in 1..Cardinality(S) |-> Ascending(S)[Cardinality(S) + 1 - i]]

\* tables of up to MaxShuffle processes are iterated in every order
MaxShuffle == 3

\* self.system.processes().iter(): a HashMap, iterated in an order of its own (every
\* order for a table of up to MaxShuffle entries, two opposite orders for a larger one).
IterOrders(S) ==
    IF Cardinality(S) <= MaxShuffle
    THEN {o \in [1..Cardinality(S) -> S] : \A i, j \in 1..Cardinality(S) : i # j => o[i] # o[j]}
    ELSE {Ascending(S), Descending(S)}

\* a plausible slip: the list is built from the table as last read, without a refresh
get_processes_stale(w, key) ==
    UNION { { [w |-> w, iter |-> o, panic |-> SortPanics(collected, key),
               list |-> IF SortPanics(collected, key) THEN <<>>
                        ELSE StableSort(collected, key)]
              : collected \in {[i \in 1..Len(o) |-> ProcessInfo(o[i], w.system[o[i]])]} }
            : o \in IterOrders(DOMAIN w.system) }

\* ProcessManager::get_processes: the worlds and lists it can return, one for each
\* iteration order (iter); panic is set when the call panics instead of returning.
get_processes(w, key) ==
    UNION { UNION { { [w |-> w2, iter |-> o, panic |-> SortPanics(collected, key),
                       list |-> IF SortPanics(collected, key) THEN <<>>
                                ELSE StableSort(collected, key)]
                      : collected \in {[i \in 1..Len(o) |-> ProcessInfo(o[i], w2.system[o[i]])]} }
                    : o \in IterOrders(DOMAIN w2.system) }
            : w2 \in {refresh(w)} }

\* ProcessManager::get_process_by_pid
get_process_by_pid(w, pid) ==
    LET w2 == refresh(w) IN
    [w |-> w2,
     found |-> IF pid \in DOMAIN w2.system
               THEN Some(ProcessInfo(pid, w2.system[pid])) ELSE None]

\* a plausible slip: the signal layer re-checks the policy and refuses
kill_process_guarded(w, pid) ==
    IF AsI32(pid) \in DOMAIN w.os /\ is_critical_process(w.os[AsI32(pid)].name)
    THEN {[w |-> w, ret |-> Protected(w.os[AsI32(pid)].name)]}
    ELSE { [w |-> r.w, ret |-> IF r.errno = "" THEN Ok ELSE SignalFailed(r.errno)]
           : r \in signal_kill(w, AsI32(pid), "SIGTERM") }

\* ProcessManager::kill_process
kill_process(w, pid) ==
    LET nix_pid == AsI32(pid) IN
    { [w |-> r.w, ret |-> IF r.errno = "" THEN Ok ELSE SignalFailed(r.errno)]
      : r \in signal_kill(w, nix_pid, "SIGTERM") }

\* a plausible slip: the forceful variant copied without changing the signal
force_kill_process_sigterm(w, pid) ==
    { [w |-> r.w, ret |-> IF r.errno = "" THEN Ok ELSE SignalFailed(r.errno)]
      : r \in signal_kill(w, AsI32(pid), "SIGTERM") }

\* ProcessManager::force_kill_process
force_kill_process(w, pid) ==
    LET nix_pid == AsI32(pid) IN
    { [w |-> r.w, ret |-> IF r.errno = "" THEN Ok ELSE SignalFailed(r.errno)]
      : r \in signal_kill(w, nix_pid, "SIGKILL") }

-----------------------------------------------------------------------------
(* Front-ends: shared shapes *)

\* fl!(id, name = .., error = ..): a localised message, kept as its id and arguments;
\* `via` is the id of a localised message passed as the error argument.
Fl(id, name, via, error) == [name |-> name, id |-> id, via |-> via, error |-> error]

\* Toast { message, is_error }
Toast(message, is_error) == [message |-> message, is_error |-> is_error]

\* Message: one record shape for every variant
Msg(type, pid, flag, sort, text, sel) ==
    [pid |-> pid, type |-> type, flag |-> flag, sort |-> sort, text |-> text, sel |-> sel]
M0(type) == Msg(type, 0, FALSE, "", <<>>, None)
MRefreshProcesses == M0("RefreshProcesses")
MKillProcess(pid) == Msg("KillProcess", pid, FALSE, "", <<>>, None)
MForceKillProcess(pid) == Msg("ForceKillProcess", pid, FALSE, "", <<>>, None)
MToggleShowAll(b) == Msg("ToggleShowAll", 0, b, "", <<>>, None)
MSortBy(k) == Msg("SortBy", 0, FALSE, k, <<>>, None)
MUpdateSearch(q) == Msg("UpdateSearch", 0, FALSE, "", q, None)
MSelectProcess(o) == Msg("SelectProcess", 0, FALSE, "", <<>>, o)
MConfirmKill == M0("ConfirmKill")
MConfirmForceKill == M0("ConfirmForceKill")
MCancelConfirmation == M0("CancelConfirmation")
MShowToast(t, e) == Msg("ShowToast", 0, e, "", t, None)
MClearToast == M0("ClearToast")

SortKeys == {"Cpu", "Memory", "Pid", "Name"}

\* Vec::truncate
Truncate(s, n) == IF Len(s) > n THEN SubSeq(s, 1, n) ELSE s

\* self.processes.iter().find(|p| p.pid == pid).cloned()
Find(list, pid) ==
    LET I == {i \in 1..Len(list) : list[i].pid = pid} IN
    IF I = {} THEN None ELSE Some(list[CHOOSE i \in I : \A j \in I : i <= j])

-----------------------------------------------------------------------------
(* app.rs: AppModel *)

\* a plausible slip: a refresh drops a pending target that left the list
App_refresh_processes_drops_pending(w) ==
    { LET list == IF ~r.w.show_all THEN Truncate(r.list, TRUNCATE) ELSE r.list
          gone == IsSome(r.w.selected_process)
                  /\ ~IsSome(Find(list, Unwrap(r.w.selected_process).pid))
      IN [r.w EXCEPT !.processes = list,
                     !.selected_process = IF gone THEN None ELSE @,
                     !.confirmation_mode = IF gone THEN "None" ELSE @]
      : r \in {x \in get_processes(w, w.sort_by) : ~x.panic} }

\* AppModel::refresh_processes (a panic in get_processes unwinds out of update: the
\* front-end has no next state)
App_refresh_processes(w) ==
    { [r.w EXCEPT !.processes = IF ~r.w.show_all THEN Truncate(r.list, TRUNCATE) ELSE r.list]
      : r \in {x \in get_processes(w, w.sort_by) : ~x.panic} }

\* AppModel::get_filtered_processes
App_get_filtered_processes(w) ==
    IF w.search_query = <<>> THEN w.processes
    ELSE LET query == ToLower(w.search_query) IN
         SelectSeq(w.processes,
                   LAMBDA p : Contains(ToLower(p.name), query) \/ Contains(PidString(p.pid), query))

\* a plausible slip: a refused request also dismisses the pending confirmation
App_handle_kill_process_reset(w, pid, force) ==
    LET process == Find(w.processes, pid) IN
    IF process = None
    THEN [w EXCEPT !.toast = Some(Toast(Fl("error-process-not-found", <<>>, "", ""), TRUE))]
    ELSE LET r == can_kill_process(Unwrap(process)) IN
         IF r.kind = "Ok"
         THEN [w EXCEPT !.selected_process = process,
                        !.confirmation_mode = IF force THEN "ForceKill" ELSE "Kill"]
         ELSE [w EXCEPT !.toast = Some(Toast(Fl("notification-protected", r.name, "", ""), TRUE)),
                        !.selected_process = None, !.confirmation_mode = "None"]

\* a plausible slip: the forceful request asks for the graceful confirmation
App_handle_kill_process_kill_only(w, pid, force) ==
    LET process == Find(w.processes, pid) IN
    IF process = None
    THEN [w EXCEPT !.toast = Some(Toast(Fl("error-process-not-found", <<>>, "", ""), TRUE))]
    ELSE LET r == can_kill_process(Unwrap(process)) IN
         IF r.kind = "Ok"
         THEN [w EXCEPT !.selected_process = process, !.confirmation_mode = "Kill"]
         ELSE [w EXCEPT !.toast = Some(Toast(Fl("notification-protected", r.name, "", ""), TRUE))]

\* a plausible slip: a request for a pid the list does not hold closes the dialog
App_handle_kill_process_dismiss(w, pid, force) ==
    LET process == Find(w.processes, pid) IN
    IF process = None
    THEN [w EXCEPT !.toast = Some(Toast(Fl("error-process-not-found", <<>>, "", ""), TRUE)),
                   !.selected_process = None, !.confirmation_mode = "None"]
    ELSE LET r == can_kill_process(Unwrap(process)) IN
         IF r.kind = "Ok"
         THEN [w EXCEPT !.selected_process = process,
                        !.confirmation_mode = IF force THEN "ForceKill" ELSE "Kill"]
         ELSE [w EXCEPT !.toast = Some(Toast(Fl("notification-protected", r.name, "", ""), TRUE))]

\* AppModel::handle_kill_process
App_handle_kill_process(w, pid, force) ==
    LET process == Find(w.processes, pid) IN
    IF process = None
    THEN [w EXCEPT !.toast = Some(Toast(Fl("error-process-not-found", <<>>, "", ""), TRUE))]
    ELSE LET r == can_kill_process(Unwrap(process)) IN
         CASE r.kind = "PermissionDenied" ->
                [w EXCEPT !.toast =
                    Some(Toast(Fl("notification-permission-denied", <<>>, "", ""), TRUE))]
           [] r.kind = "Protected" ->
                [w EXCEPT !.toast =
                    Some(Toast(Fl("notification-protected", r.name, "", ""), TRUE))]
           [] r.kind = "Ok" ->
                [w EXCEPT !.selected_process = process,
                          !.confirmation_mode = IF force THEN "ForceKill" ELSE "Kill"]
           [] OTHER ->
                [w EXCEPT !.toast =
                    Some(Toast(Fl("error-unknown-error", r.name, r.kind, r.msg), TRUE))]

\* execute_kill, the Err(e) arm: the message for the error kind
KillFailedMessage(e, force) ==
    CASE e.kind = "SignalFailed" ->
            Fl("notification-kill-failed", <<>>,
               IF force THEN "error-sigkill-failed" ELSE "error-sigterm-failed", e.msg)
      [] e.kind = "PermissionDenied" ->
            Fl("notification-kill-failed", <<>>, "notification-permission-denied", "")
      [] e.kind = "NotFound" ->
            Fl("notification-kill-failed", <<>>, "error-process-not-found", "")
      [] e.kind = "Protected" ->
            Fl("notification-kill-failed", e.name, "notification-protected", "")
      [] e.kind = "Unknown" ->
            Fl("notification-kill-failed", <<>>, "error-unknown-error", e.msg)

\* a plausible slip: the list is left as it was after the signal
App_execute_kill_no_refresh(w, process, force) ==
    { LET toast2 ==
            IF r.ret = Ok
            THEN Toast(Fl(IF force THEN "notification-force-kill-success"
                                   ELSE "notification-kill-success",
                          process.name, "", ""), FALSE)
            ELSE Toast(KillFailedMessage(r.ret, force), TRUE)
      IN [r.w EXCEPT !.toast = Some(toast2)]
      : r \in IF force THEN force_kill_process(w, U32Of(process.pid))
                       ELSE kill_process(w, U32Of(process.pid)) }

\* AppModel::execute_kill
App_execute_kill(w, process, force) ==
    UNION { LET toast2 ==
                  IF r.ret = Ok
                  THEN Toast(Fl(IF force THEN "notification-force-kill-success"
                                         ELSE "notification-kill-success",
                                process.name, "", ""), FALSE)
                  ELSE Toast(KillFailedMessage(r.ret, force), TRUE)
            IN App_refresh_processes([r.w EXCEPT !.toast = Some(toast2)])
            : r \in IF force THEN force_kill_process(w, U32Of(process.pid))
                             ELSE kill_process(w, U32Of(process.pid)) }

\* a plausible slip: cancelling also clears the notification
App_cancel_clears_toast(w) ==
    [w EXCEPT !.confirmation_mode = "None", !.selected_process = None, !.toast = None]

\* AppModel::update, Message::CancelConfirmation
App_cancel(w) == [w EXCEPT !.confirmation_mode = "None", !.selected_process = None]

\* a plausible slip: both confirm arms ask for the graceful signal
App_confirm_graceful(w, force) ==
    { [w2 EXCEPT !.confirmation_mode = "None", !.selected_process = None]
      : w2 \in IF IsSome(w.selected_process)
               THEN App_execute_kill(w, Unwrap(w.selected_process), FALSE)
               ELSE {w} }

\* AppModel::update, Message::ConfirmKill / Message::ConfirmForceKill
App_confirm(w, force) ==
    { [w2 EXCEPT !.confirmation_mode = "None", !.selected_process = None]
      : w2 \in IF IsSome(w.selected_process)
               THEN App_execute_kill(w, Unwrap(w.selected_process), force)
               ELSE {w} }

\* a plausible slip: a click on a row is ignored while a confirmation is pending
App_select_keeps_pending(w, sel) ==
    IF w.confirmation_mode # "None" THEN w
    ELSE IF IsSome(sel)
    THEN [w EXCEPT !.selected_process = Find(w.processes, Unwrap(sel))]
    ELSE [w EXCEPT !.selected_process = None]

\* AppModel::update, Message::SelectProcess
App_select(w, sel) ==
    IF IsSome(sel)
    THEN [w EXCEPT !.selected_process = Find(w.processes, Unwrap(sel))]
    ELSE [w EXCEPT !.selected_process = None]

\* AppModel::update
App_update(w, m) ==
    CASE m.type = "RefreshProcesses"   -> App_refresh_processes(w)
      [] m.type = "KillProcess"        -> {App_handle_kill_process(w, m.pid, FALSE)}
      [] m.type = "ForceKillProcess"   -> {App_handle_kill_process(w, m.pid, TRUE)}
      [] m.type = "ConfirmKill"        -> App_confirm(w, FALSE)
      [] m.type = "ConfirmForceKill"   -> App_confirm(w, TRUE)
      [] m.type = "CancelConfirmation" -> {App_cancel(w)}
      [] m.type = "ToggleShowAll"      -> {[w EXCEPT !.show_all = m.flag]}
      [] m.type = "SortBy"             -> App_refresh_processes([w EXCEPT !.sort_by = m.sort])
      [] m.type = "UpdateSearch"       -> {[w EXCEPT !.search_query = m.text]}
      [] m.type = "SelectProcess"      -> {App_select(w, m.sel)}
      [] m.type = "ShowToast"          ->
            {[w EXCEPT !.toast = Some(Toast(Fl("literal", m.text, "", ""), m.flag))]}
      [] m.type = "ClearToast"         -> {[w EXCEPT !.toast = None]}

\* AppModel::view_window / create_process_row / subscription:
\* the messages the rendered interface can emit in this state
App_offers(w, m) ==
    LET rows == App_get_filtered_processes(w)
        row == Find(rows, m.pid)
        dialog == IsSome(w.selected_process) /\ w.confirmation_mode # "None"
    IN CASE m.type = "RefreshProcesses"   -> TRUE
         [] m.type = "UpdateSearch"       -> TRUE
         [] m.type = "SortBy"             -> TRUE
         [] m.type = "ToggleShowAll"      -> m.flag = ~w.show_all
         [] m.type = "ConfirmKill"        -> dialog /\ w.confirmation_mode # "ForceKill"
         [] m.type = "ConfirmForceKill"   -> dialog /\ w.confirmation_mode = "ForceKill"
         [] m.type = "CancelConfirmation" -> dialog
         [] m.type = "SelectProcess"      ->
                IsSome(m.sel) /\ IsSome(Find(rows, Unwrap(m.sel)))
         [] m.type \in {"KillProcess", "ForceKillProcess"} ->
                IsSome(row) /\ can_kill_process(Unwrap(row)) = Ok
         [] OTHER -> FALSE

-----------------------------------------------------------------------------
(* standalone.rs: StandaloneApp *)

\* StandaloneApp::refresh_processes (a panic in get_processes unwinds out of update: the
\* front-end has no next state)
Std_refresh_processes(w) ==
    { [r.w EXCEPT !.processes = IF ~r.w.show_all THEN Truncate(r.list, TRUNCATE) ELSE r.list]
      : r \in {x \in get_processes(w, w.sort_by) : ~x.panic} }

\* StandaloneApp::get_filtered_processes
Std_get_filtered_processes(w) ==
    IF w.search_query = <<>> THEN w.processes
    ELSE LET query == ToLower(w.search_query) IN
         SelectSeq(w.processes,
                   LAMBDA p : Contains(ToLower(p.name), query) \/ Contains(PidString(p.pid), query))

\* StandaloneApp::handle_kill_process
Std_handle_kill_process(w, pid, force) ==
    LET process == Find(w.processes, pid) IN
    IF process = None
    THEN [w EXCEPT !.toast = Some(Toast(Fl("error-process-not-found", <<>>, "", ""), TRUE))]
    ELSE LET r == can_kill_process(Unwrap(process)) IN
         CASE r.kind = "PermissionDenied" ->
                [w EXCEPT !.toast =
                    Some(Toast(Fl("notification-permission-denied", <<>>, "", ""), TRUE))]
           [] r.kind = "Protected" ->
                [w EXCEPT !.toast =
                    Some(Toast(Fl("notification-protected", r.name, "", ""), TRUE))]
           [] r.kind = "Ok" ->
                [w EXCEPT !.selected_process = process,
                          !.confirmation_mode = IF force THEN "ForceKill" ELSE "Kill"]
           [] OTHER ->
                [w EXCEPT !.toast =
                    Some(Toast(Fl("error-unknown-error", r.name, r.kind, r.msg), TRUE))]

\* execute_kill, the Err(e) arm: the message for the error kind
Std_KillFailedMessage(e, force) ==
    CASE e.kind = "SignalFailed" ->
            Fl("notification-kill-failed", <<>>,
               IF force THEN "error-sigkill-failed" ELSE "error-sigterm-failed", e.msg)
      [] e.kind = "PermissionDenied" ->
            Fl("notification-kill-failed", <<>>, "notification-permission-denied", "")
      [] e.kind = "NotFound" ->
            Fl("notification-kill-failed", <<>>, "error-process-not-found", "")
      [] e.kind = "Protected" ->
            Fl("notification-kill-failed", e.name, "notification-protected", "")
      [] e.kind = "Unknown" ->
            Fl("notification-kill-failed", <<>>, "error-unknown-error", e.msg)

\* StandaloneApp::execute_kill
Std_execute_kill(w, process, force) ==
    UNION { LET toast2 ==
                  IF r.ret = Ok
                  THEN Toast(Fl(IF force THEN "notification-force-kill-success"
                                         ELSE "notification-kill-success",
                                process.name, "", ""), FALSE)
                  ELSE Toast(Std_KillFailedMessage(r.ret, force), TRUE)
            IN Std_refresh_processes([r.w EXCEPT !.toast = Some(toast2)])
            : r \in IF force THEN force_kill_process(w, U32Of(process.pid))
                             ELSE kill_process(w, U32Of(process.pid)) }

\* StandaloneApp::update, Message::CancelConfirmation
Std_cancel(w) == [w EXCEPT !.confirmation_mode = "None", !.selected_process = None]

\* StandaloneApp::update, Message::ConfirmKill / Message::ConfirmForceKill
Std_confirm(w, force) ==
    { [w2 EXCEPT !.confirmation_mode = "None", !.selected_process = None]
      : w2 \in IF IsSome(w.selected_process)
               THEN Std_execute_kill(w, Unwrap(w.selected_process), force)
               ELSE {w} }

\* StandaloneApp::update, Message::SelectProcess
Std_select(w, sel) ==
    IF IsSome(sel)
    THEN [w EXCEPT !.selected_process = Find(w.processes, Unwrap(sel))]
    ELSE [w EXCEPT !.selected_process = None]

\* StandaloneApp::update
Std_update(w, m) ==
    CASE m.type = "RefreshProcesses"   -> Std_refresh_processes(w)
      [] m.type = "KillProcess"        -> {Std_handle_kill_process(w, m.pid, FALSE)}
      [] m.type = "ForceKillProcess"   -> {Std_handle_kill_process(w, m.pid, TRUE)}
      [] m.type = "ConfirmKill"        -> Std_confirm(w, FALSE)
      [] m.type = "ConfirmForceKill"   -> Std_confirm(w, TRUE)
      [] m.type = "CancelConfirmation" -> {Std_cancel(w)}
      [] m.type = "ToggleShowAll"      -> Std_refresh_processes([w EXCEPT !.show_all = m.flag])
      [] m.type = "SortBy"             -> Std_refresh_processes([w EXCEPT !.sort_by = m.sort])
      [] m.type = "UpdateSearch"       -> {[w EXCEPT !.search_query = m.text]}
      [] m.type = "SelectProcess"      -> {Std_select(w, m.sel)}
      [] m.type = "ShowToast"          ->
            {[w EXCEPT !.toast = Some(Toast(Fl("literal", m.text, "", ""), m.flag))]}
      [] m.type = "ClearToast"         -> {[w EXCEPT !.toast = None]}

\* StandaloneApp::view / create_process_row / subscription:
\* the messages the rendered interface can emit in this state
Std_offers(w, m) ==
    LET rows == Std_get_filtered_processes(w)
        row == Find(rows, m.pid)
        dialog == IsSome(w.selected_process) /\ w.confirmation_mode # "None"
    IN CASE m.type = "RefreshProcesses"   -> TRUE
         [] m.type = "UpdateSearch"       -> TRUE
         [] m.type = "SortBy"             -> TRUE
         [] m.type = "ToggleShowAll"      -> m.flag = ~w.show_all
         [] m.type = "ConfirmKill"        -> dialog /\ w.confirmation_mode # "ForceKill"
         [] m.type = "ConfirmForceKill"   -> dialog /\ w.confirmation_mode = "ForceKill"
         [] m.type = "CancelConfirmation" -> dialog
         [] m.type = "SelectProcess"      ->
                IsSome(m.sel) /\ IsSome(Find(rows, Unwrap(m.sel)))
         [] m.type \in {"KillProcess", "ForceKillProcess"} ->
                IsSome(row) /\ can_kill_process(Unwrap(row)) = Ok
         [] OTHER -> FALSE

-----------------------------------------------------------------------------
(* State *)

\* The state a call runs in, with no OS call made yet in this step.
World ==
    [os |-> os, system |-> system, processes |-> processes,
     show_all |-> show_all, sort_by |-> sort_by, search_query |-> search_query,
     selected_process |-> selected_process, confirmation_mode |-> confirmation_mode,
     toast |-> toast, calls |-> <<>>]

\* AppModel::default / StandaloneApp::init before the first refresh, on OS table t;
\* ProcessManager::new has read the table.
NewWorld(t) ==
    [os |-> t, system |-> t, processes |-> <<>>,
     show_all |-> FALSE, sort_by |-> "Cpu", search_query |-> <<>>,
     selected_process |-> None, confirmation_mode |-> "None",
     toast |-> None, calls |-> <<>>]

EmptyTable == [p \in {} |-> 0]

Adopt(w) ==
    /\ os' = w.os
    /\ system' = w.system
    /\ processes' = w.processes
    /\ show_all' = w.show_all
    /\ sort_by' = w.sort_by
    /\ search_query' = w.search_query
    /\ selected_process' = w.selected_process
    /\ confirmation_mode' = w.confirmation_mode
    /\ toast' = w.toast

Start(w) ==
    /\ os = w.os
    /\ system = w.system
    /\ processes = w.processes
    /\ show_all = w.show_all
    /\ sort_by = w.sort_by
    /\ search_query = w.search_query
    /\ selected_process = w.selected_process
    /\ confirmation_mode = w.confirmation_mode
    /\ toast = w.toast
    /\ steps = 0

\* The history record: what ran last (op, msg), the state it ran in (pre), the OS calls
\* it made (calls) and what it returned (ret, out).
Last(op, m, pre, calls, ret, out) ==
    [msg |-> m, calls |-> calls, ret |-> ret, op |-> op, pre |-> pre, out |-> out]

NoLast(op) == Last(op, M0(op), NewWorld(EmptyTable), <<>>, Ok, <<>>)

\* The process table the front-end is started on: the init process, a user's
\* process and a system service.
UiTable == [p \in {1, 2, 3} |-> CASE p = 1 -> P_init [] p = 2 -> P_myapp [] p = 3 -> P_sshd]
UiPids == DOMAIN UiTable
UiProcs == {P_init, P_sshd, P_myapp}

\* AppModel::init / StandaloneApp::init: the model is built and refreshed once.
Init ==
    /\ frontend \in {"applet", "standalone"}
    /\ \E w \in IF frontend = "applet" THEN App_refresh_processes(NewWorld(UiTable))
                                       ELSE Std_refresh_processes(NewWorld(UiTable)) :
          Start(w)
    /\ last = NoLast("init")

-----------------------------------------------------------------------------
(* The front-end's update loop: one action per message that something emits
   (a widget of the view, or the timer subscription).  A message is handled in
   whatever state it arrives in: the view it was emitted from may be out of date. *)

update(w, m) == IF frontend = "applet" THEN App_update(w, m) ELSE Std_update(w, m)
offers(w, m) == IF frontend = "applet" THEN App_offers(w, m) ELSE Std_offers(w, m)

Deliver(m) ==
    /\ frontend \in {"applet", "standalone"}
    /\ steps < MaxSteps
    /\ steps' = steps + 1
    /\ \E w \in update(World, m) :
         /\ Adopt(w)
         /\ last' = Last("update", m, World, w.calls, Ok, <<>>)
    /\ UNCHANGED frontend

Queries == {<<>>, Q_my}

RefreshProcesses == Deliver(MRefreshProcesses)
KillProcess == \E pid \in UiPids : Deliver(MKillProcess(pid))
ForceKillProcess == \E pid \in UiPids : Deliver(MForceKillProcess(pid))
ConfirmKill == Deliver(MConfirmKill)
ConfirmForceKill == Deliver(MConfirmForceKill)
CancelConfirmation == Deliver(MCancelConfirmation)
ToggleShowAll == \E b \in BOOLEAN : Deliver(MToggleShowAll(b))
SortBy == \E k \in SortKeys : Deliver(MSortBy(k))
UpdateSearch == \E q \in Queries : Deliver(MUpdateSearch(q))
SelectProcess == \E pid \in UiPids : Deliver(MSelectProcess(Some(pid)))

(* The environment: processes come and go behind the program's back *)

ProcessExits ==
    /\ steps < MaxSteps
    /\ steps' = steps + 1
    /\ \E pid \in DOMAIN os : os' = Remove(os, {pid})
    /\ last' = NoLast("env")
    /\ UNCHANGED <<system, frontend, processes, show_all, sort_by, search_query,
                   selected_process, confirmation_mode, toast>>

\* a new process gets a pid that is free: one never used, or one given back by an exit
ProcessSpawns ==
    /\ steps < MaxSteps
    /\ steps' = steps + 1
    /\ \E pid \in UiPids \ DOMAIN os, p \in UiProcs : os' = Insert(os, pid, p)
    /\ last' = NoLast("env")
    /\ UNCHANGED <<system, frontend, processes, show_all, sort_by, search_query,
                   selected_process, confirmation_mode, toast>>

Next ==
    \/ RefreshProcesses
    \/ KillProcess
    \/ ForceKillProcess
    \/ ConfirmKill
    \/ ConfirmForceKill
    \/ CancelConfirmation
    \/ ToggleShowAll
    \/ SortBy
    \/ UpdateSearch
    \/ SelectProcess
    \/ ProcessExits
    \/ ProcessSpawns

Spec == Init /\ [][Next]_vars

-----------------------------------------------------------------------------
(* The same front-end, driven only through the interface it has rendered: a message
   is delivered only in a state whose view offers it. *)

OfferedDeliver(m) == offers(World, m) /\ Deliver(m)

ViewRefreshProcesses == OfferedDeliver(MRefreshProcesses)
ViewKillProcess == \E pid \in UiPids : OfferedDeliver(MKillProcess(pid))
ViewForceKillProcess == \E pid \in UiPids : OfferedDeliver(MForceKillProcess(pid))
ViewConfirmKill == OfferedDeliver(MConfirmKill)
ViewConfirmForceKill == OfferedDeliver(MConfirmForceKill)
ViewCancelConfirmation == OfferedDeliver(MCancelConfirmation)
ViewToggleShowAll == \E b \in BOOLEAN : OfferedDeliver(MToggleShowAll(b))
ViewSortBy == \E k \in SortKeys : OfferedDeliver(MSortBy(k))
ViewUpdateSearch == \E q \in Queries : OfferedDeliver(MUpdateSearch(q))
ViewSelectProcess == \E pid \in UiPids : OfferedDeliver(MSelectProcess(Some(pid)))

NextView ==
    \/ ViewRefreshProcesses
    \/ ViewKillProcess
    \/ ViewForceKillProcess
    \/ ViewConfirmKill
    \/ ViewConfirmForceKill
    \/ ViewCancelConfirmation
    \/ ViewToggleShowAll
    \/ ViewSortBy
    \/ ViewUpdateSearch
    \/ ViewSelectProcess
    \/ ProcessExits
    \/ ProcessSpawns

SpecView == Init /\ [][NextView]_vars

-----------------------------------------------------------------------------
(* The core alone: a caller invoking the ProcessManager API with inputs of its own *)

\* a table with names differing in case and equal cpu_usage values
TiesTable ==
    [p \in {1, 2, 3} |-> CASE p = 1 -> P_MyApp [] p = 2 -> P_other [] p = 3 -> P_myapp]
CoreTables == {UiTable, TiesTable}

\* u32 inputs: 0, table pids, a pid no process has, 2^31 - 1, 2^31, 2^32 - 2, 2^32 - 1
PidInputs ==
    {U32Of(n) : n \in {0, 1, 2, 3, 9999}}
    \cup {[hi |-> Limb \div 2 - 1, lo |-> Limb - 1], [hi |-> Limb \div 2, lo |-> 0],
          [hi |-> Limb - 1, lo |-> Limb - 2], [hi |-> Limb - 1, lo |-> Limb - 1]}

NameInputs ==
    {<<>>, N_init, N_Init, N_initd, N_ini, N_systemd, N_logind, N_sshd, N_sshd_s,
     N_SSHD, N_myapp, N_kswapd0}

\* ProcessInfo inputs: every name, with is_system set and unset, and two settings of
\* the other fields
RecordInputs ==
    {[pid |-> f.pid, name |-> n, cpu_usage |-> f.cpu_usage, memory |-> f.memory,
      status |-> f.status, is_system |-> b]
       : n \in NameInputs, b \in BOOLEAN,
         f \in {[pid |-> 1, cpu_usage |-> 0, memory |-> 0, status |-> "Run"],
                [pid |-> 4242, cpu_usage |-> 875, memory |-> 10, status |-> "Zombie"]}}

InitCore ==
    /\ frontend = "core"
    /\ \E t \in CoreTables : Start(NewWorld(t))
    /\ last = NoLast("init")

Call(op, m, w, ret, out) ==
    /\ frontend = "core"
    /\ steps < MaxSteps
    /\ steps' = steps + 1
    /\ Adopt(w)
    /\ last' = Last(op, m, World, w.calls, ret, out)
    /\ UNCHANGED frontend

CallCanKillProcess ==
    \E rec \in RecordInputs :
        Call("can_kill_process", MSelectProcess(Some(rec)), World, can_kill_process(rec), <<>>)

CallKillProcess ==
    \E pid \in PidInputs : \E r \in kill_process(World, pid) :
        Call("kill_process", MKillProcess(pid), r.w, r.ret, <<>>)

CallForceKillProcess ==
    \E pid \in PidInputs : \E r \in force_kill_process(World, pid) :
        Call("force_kill_process", MForceKillProcess(pid), r.w, r.ret, <<>>)

\* get_processes(sort_by) with the iteration order the HashMap took (text)
MGetProcesses(k, o) == Msg("get_processes", 0, FALSE, k, o, None)

\* a panic ends the caller's process: no call follows it
Panicked(op, m, w) ==
    /\ frontend = "core"
    /\ steps < MaxSteps
    /\ steps' = steps + 1
    /\ Adopt(w)
    /\ last' = Last(op, m, World, w.calls, Panic, <<>>)
    /\ frontend' = "panicked"

CallGetProcesses ==
    \E k \in SortKeys : \E r \in get_processes(World, k) :
        IF r.panic
        THEN Panicked("get_processes", MGetProcesses(k, r.iter), r.w)
        ELSE Call("get_processes", MGetProcesses(k, r.iter), r.w, Ok, r.list)

CallGetProcessByPid ==
    \E pid \in {1, 2, 3, 9999} :
        LET r == get_process_by_pid(World, pid) IN
        Call("get_process_by_pid", MKillProcess(pid), r.w, Ok, r.found)

CallRefresh == Call("refresh", M0("refresh"), refresh(World), Ok, <<>>)

NextCore ==
    \/ CallCanKillProcess
    \/ CallKillProcess
    \/ CallForceKillProcess
    \/ CallGetProcesses
    \/ CallGetProcessByPid
    \/ CallRefresh
    \/ ProcessExits
    \/ ProcessSpawns

SpecCore == InitCore /\ [][NextCore]_vars

-----------------------------------------------------------------------------
(* The core's snapshots alone: a caller listing the processes again and again while
   processes come and go *)

\* a table with a service instance whose cpu_usage reads NaN, and look-alike names
OddTable ==
    [p \in {1, 2, 3} |-> CASE p = 1 -> P_sshd_s [] p = 2 -> P_initd [] p = 3 -> P_SSHD]
SnapTables == {TiesTable, OddTable}

InitSnap ==
    /\ frontend = "core"
    /\ \E t \in SnapTables : Start(NewWorld(t))
    /\ last = NoLast("init")

\* the cpu_usage values the next refresh pass can read for the same processes
CpuVariants(table) ==
    {table} \cup {[table EXCEPT ![p].cpu_usage = 875]
                    : p \in {q \in DOMAIN table : \A r \in DOMAIN table : q <= r}}

\* two get_processes calls in a row, with no process creation or exit between them;
\* out holds the two lists
CallGetProcessesTwice ==
    \E r1 \in get_processes(World, "Pid") :
        \E t \in CpuVariants(r1.w.os) : \E r2 \in get_processes([r1.w EXCEPT !.os = t], "Pid") :
            Call("get_processes_twice", MSortBy("Pid"), r2.w, Ok, <<r1.list, r2.list>>)

NextSnap ==
    \/ CallGetProcesses
    \/ CallGetProcessesTwice
    \/ CallGetProcessByPid
    \/ ProcessExits
    \/ ProcessSpawns

SpecSnap == InitSnap /\ [][NextSnap]_vars

-----------------------------------------------------------------------------
(* The front-end for as long as it runs: the timer subscription sends
   RefreshProcesses every two seconds, the user asks for, confirms and cancels kills,
   and processes exit and come back.  No step is counted, and the history record keeps
   no copy of the state before. *)

LiveDeliver(m) ==
    /\ frontend \in {"applet", "standalone"}
    /\ \E w \in update(World, m) :
         /\ Adopt(w)
         /\ last' = Last("update", m, NewWorld(EmptyTable), w.calls, Ok, <<>>)
    /\ UNCHANGED <<frontend, steps>>

\* a plausible slip: the timer subscription is only kept while no dialog is open
TimerRefresh_only_idle == confirmation_mode = "None" /\ LiveDeliver(MRefreshProcesses)

\* subscription: sleep two seconds, send RefreshProcesses, again and again; the
\* runtime hands the message to update
TimerRefresh == LiveDeliver(MRefreshProcesses)

LiveKillProcess == \E pid \in UiPids : LiveDeliver(MKillProcess(pid))
LiveConfirmKill == LiveDeliver(MConfirmKill)
LiveCancelConfirmation == LiveDeliver(MCancelConfirmation)

LiveProcessExits ==
    /\ \E pid \in DOMAIN os : os' = Remove(os, {pid})
    /\ last' = NoLast("env")
    /\ UNCHANGED <<system, frontend, processes, show_all, sort_by, search_query,
                   selected_process, confirmation_mode, toast, steps>>

\* the program that exited is started again and happens to get its old pid
LiveProcessSpawns ==
    /\ \E pid \in UiPids \ DOMAIN os : os' = Insert(os, pid, UiTable[pid])
    /\ last' = NoLast("env")
    /\ UNCHANGED <<system, frontend, processes, show_all, sort_by, search_query,
                   selected_process, confirmation_mode, toast, steps>>

NextLive ==
    \/ TimerRefresh
    \/ LiveKillProcess
    \/ LiveConfirmKill
    \/ LiveCancelConfirmation
    \/ LiveProcessExits
    \/ LiveProcessSpawns

\* the timer task and the update loop are scheduled fairly
SpecLive == Init /\ [][NextLive]_vars /\ WF_vars(TimerRefresh)

-----------------------------------------------------------------------------
(* The front-end on a machine that runs more processes than the short list shows *)

\* one process more than the short list holds
ManyCount == TRUNCATE + 1

\* the three processes of UiTable and busy user processes beside them
ManyTable ==
    [p \in 1..ManyCount |-> IF p \in UiPids THEN UiTable[p] ELSE Proc(N_other, 100 + p, p, TRUE)]

InitMany ==
    /\ frontend \in {"applet", "standalone"}
    /\ \E w \in IF frontend = "applet" THEN App_refresh_processes(NewWorld(ManyTable))
                                       ELSE Std_refresh_processes(NewWorld(ManyTable)) :
          Start(w)
    /\ last = NoLast("init")

NextMany ==
    \/ RefreshProcesses
    \/ ToggleShowAll
    \/ SortBy
    \/ KillProcess
    \/ ForceKillProcess
    \/ ConfirmKill
    \/ CancelConfirmation

SpecMany == InitMany /\ [][NextMany]_vars


-----------------------------------------------------------------------------
(* Properties *)

KillCalls(calls) == SelectSeq(calls, LAMBDA c : c.call = "kill")
LastKills == KillCalls(last.calls)
CriticalSet == {critical_processes[i] : i \in 1..Len(critical_processes)}

IsUpdate(types) == last.op = "update" /\ last.msg.type \in types
IsTerminate == last.op = "kill_process" \/ last.op = "force_kill_process"

\* the record a kill request names, looked up in the list displayed when it arrived
Requested == Find(last.pre.processes, last.msg.pid)
IsKillRequest == IsUpdate({"KillProcess", "ForceKillProcess"})
PolicyFailed == IsKillRequest /\ IsSome(Requested) /\ Unwrap(Requested).name \in CriticalSet
PolicyPassed == IsKillRequest /\ IsSome(Requested) /\ Unwrap(Requested).name \notin CriticalSet

\* C1: driven through the rendered interface, the front-end never invokes
\* kill_process / force_kill_process for a record whose name is in the
\* critical-process set.
C1_CriticalNeverSignalled ==
    (last.op = "update" /\ LastKills # <<>>)
        => Unwrap(last.pre.selected_process).name \notin CriticalSet

\* C2: can_kill_process returns Protected(name), with the record's own name, exactly
\* for the names equal to an entry of the critical-process set, and Ok for every
\* other name, whatever is_system, pid, cpu_usage, memory and status are.
C2_CanKillExactMatch ==
    last.op = "can_kill_process" =>
        LET rec == Unwrap(last.msg.sel) IN
        /\ rec.name \in CriticalSet => last.ret = Protected(rec.name)
        /\ rec.name \notin CriticalSet => last.ret = Ok
        /\ rec.name \in {N_sshd, N_logind, N_Init, N_initd, N_ini} => last.ret = Ok
        /\ rec.name \in {N_init, N_systemd} => last.ret.kind = "Protected"

C2_Witness ==
    /\ last.op = "can_kill_process"
    /\ Unwrap(last.msg.sel).name = N_logind
    /\ Unwrap(last.msg.sel).is_system
    /\ last.ret = Ok

\* C3: kill_process and force_kill_process do not consult the protection policy: for
\* every pid they make the OS kill request, also when the process holding the pid has
\* a critical name, and they never return Protected.
C3_TerminateDoesNotRecheck ==
    IsTerminate =>
        /\ Len(LastKills) = 1
        /\ LastKills[1].target = AsI32(last.msg.pid)
        /\ last.ret.kind # "Protected"

C3_Witness ==
    /\ last.op = "kill_process"
    /\ last.msg.pid = U32Of(1)
    /\ 1 \in DOMAIN last.pre.os
    /\ last.pre.os[1].name \in CriticalSet
    /\ Len(LastKills) = 1
    /\ LastKills[1].target = 1

\* C4: every kill_process call hands SIGTERM, and every force_kill_process call hands
\* SIGKILL, to the OS signal interface, in exactly one request, which for a pid in
\* the pid_t range names that pid.
C4_SignalKindMatchesCall ==
    IsTerminate =>
        /\ Len(last.calls) = 1
        /\ last.calls[1].call = "kill"
        /\ last.calls[1].sig = IF last.op = "kill_process" THEN "SIGTERM" ELSE "SIGKILL"
        /\ (U32Fits(last.msg.pid) /\ U32Value(last.msg.pid) > 0)
              => last.calls[1].target = U32Value(last.msg.pid)

C4_Witness ==
    /\ last.op = "force_kill_process"
    /\ last.msg.pid = U32Of(2)
    /\ last.calls[1].sig = "SIGKILL"
    /\ last.calls[1].hit = {2}
    /\ last.ret = Ok

\* C5: kill_process / force_kill_process on a pid that no process has returns
\* SignalFailed or NotFound, never Ok; Ok is returned only when the OS accepted the
\* signal, and a rejection is returned as an error carrying the OS error text.
C5_NoSuchPidIsAnError ==
    IsTerminate =>
        /\ ~(U32Fits(last.msg.pid) /\ U32Value(last.msg.pid) \in DOMAIN last.pre.os)
              => last.ret.kind \in {"SignalFailed", "NotFound"}
        /\ last.ret = Ok => LastKills[1].errno = ""
        /\ LastKills[1].errno # "" => last.ret.msg = LastKills[1].errno

\* C6: when the OS rejects the signal for lack of privilege, kill_process /
\* force_kill_process return PermissionDenied; SignalFailed is returned only for the
\* other rejections.
C6_PermissionDeniedKind ==
    IsTerminate =>
        /\ LastKills[1].errno = "EPERM: Operation not permitted"
              => last.ret = PermissionDenied
        /\ last.ret.kind = "SignalFailed"
              => LastKills[1].errno \notin {"", "EPERM: Operation not permitted"}

\* C7: the target handed to the OS kill call is a positive integer equal to pid, so
\* that 0 and the pids from 2^31 on are rejected with SignalFailed and no process
\* other than the one with that pid is ever signalled.
C7_TargetIsThePid ==
    IsTerminate =>
        LET pid == last.msg.pid
            valid == U32Fits(pid) /\ U32Value(pid) > 0
        IN /\ valid => LastKills[1].target = U32Value(pid)
           /\ ~valid => (last.ret.kind = "SignalFailed" /\ LastKills[1].hit = {})
           /\ LastKills[1].target > 0
           /\ LastKills[1].hit \subseteq (IF valid THEN {U32Value(pid)} ELSE {})

\* C8 as claimed: a kill request refused by the policy leaves no target pending
\* (selected_process and confirmation_mode None), sends no signal and sets an error
\* toast naming the protected process, whatever the state it arrived in.
C8_RefusalEndsIdle ==
    PolicyFailed =>
        /\ selected_process = None
        /\ confirmation_mode = "None"
        /\ last.calls = <<>>
        /\ toast = Some(Toast(Fl("notification-protected", Unwrap(Requested).name, "", ""), TRUE))

\* C8 as amended: a kill request refused by the policy sends no signal, sets an error
\* toast naming the protected process, and leaves selected_process and
\* confirmation_mode as they were: the interaction is Idle afterwards if it was Idle
\* before, and a target awaiting confirmation is still awaiting it.
C8_RefusalKeepsPending ==
    PolicyFailed =>
        /\ selected_process = last.pre.selected_process
        /\ confirmation_mode = last.pre.confirmation_mode
        /\ last.calls = <<>>
        /\ os = last.pre.os
        /\ toast = Some(Toast(Fl("notification-protected", Unwrap(Requested).name, "", ""), TRUE))

C8_Witness ==
    /\ PolicyFailed
    /\ last.pre.confirmation_mode = "Kill"
    /\ IsSome(last.pre.selected_process)
    /\ Unwrap(last.pre.selected_process).name = N_myapp
    /\ toast = Some(Toast(Fl("notification-protected", N_init, "", ""), TRUE))

\* C9: a kill request naming a pid of the displayed list whose record passes the
\* policy makes that record the pending target, with confirmation_mode Kill for
\* KillProcess and ForceKill for ForceKillProcess, and makes no OS call; a signal is
\* sent only by a confirm message.
C9_PermittedRequestAwaitsConfirmation ==
    /\ PolicyPassed =>
          /\ selected_process = Requested
          /\ confirmation_mode = IF last.msg.type = "ForceKillProcess" THEN "ForceKill" ELSE "Kill"
          /\ last.calls = <<>>
          /\ os = last.pre.os
    /\ (last.op = "update" /\ LastKills # <<>>)
          => last.msg.type \in {"ConfirmKill", "ConfirmForceKill"}

C9_Witness ==
    /\ PolicyPassed
    /\ last.msg.type = "ForceKillProcess"
    /\ Unwrap(Requested).name = N_sshd
    /\ Unwrap(Requested).is_system
    /\ confirmation_mode = "ForceKill"
    /\ selected_process = Requested

\* C10: CancelConfirmation sets selected_process and confirmation_mode to None, makes
\* no OS call (no signal, no refresh), and leaves processes, sort_by, show_all,
\* search_query and toast unchanged.
C10_CancelOnlyClearsPending ==
    IsUpdate({"CancelConfirmation"}) =>
        /\ selected_process = None
        /\ confirmation_mode = "None"
        /\ last.calls = <<>>
        /\ os = last.pre.os
        /\ system = last.pre.system
        /\ processes = last.pre.processes
        /\ sort_by = last.pre.sort_by
        /\ show_all = last.pre.show_all
        /\ search_query = last.pre.search_query
        /\ toast = last.pre.toast

C10_Witness ==
    /\ IsUpdate({"CancelConfirmation"})
    /\ last.pre.confirmation_mode = "ForceKill"
    /\ IsSome(last.pre.selected_process)
    /\ IsSome(toast)
    /\ confirmation_mode = "None"
    /\ selected_process = None

\* the step just taken is a confirm message that found a pending target
IsConfirm == IsUpdate({"ConfirmKill", "ConfirmForceKill"})
Confirmed == IsConfirm /\ IsSome(last.pre.selected_process)
PidsOf(list) == {list[i].pid : i \in 1..Len(list)}
\* the length of the displayed list over a table of n processes
Shown(n) == IF show_all \/ n <= TRUNCATE THEN n ELSE TRUNCATE

\* C11: a confirm message that arrives while a target is awaiting confirmation invokes
\* the terminate call exactly once, for the pending target's pid, then re-snapshots the
\* process list, and ends with selected_process and confirmation_mode None whatever
\* the outcome; a failed terminate sets an error toast, a successful one a non-error
\* toast.
C11_ConfirmTerminatesOnceAndEndsIdle ==
    (Confirmed /\ last.pre.confirmation_mode # "None") =>
        /\ Len(last.calls) = 2
        /\ last.calls[1].call = "kill"
        /\ last.calls[1].target = Unwrap(last.pre.selected_process).pid
        /\ last.calls[2].call = "refresh"
        /\ system = os
        /\ PidsOf(processes) \subseteq DOMAIN os
        /\ Len(processes) = Shown(Cardinality(DOMAIN os))
        /\ selected_process = None
        /\ confirmation_mode = "None"
        /\ IsSome(toast)
        /\ Unwrap(toast).is_error = (last.calls[1].errno # "")

C11_Witness ==
    /\ Confirmed
    /\ last.pre.confirmation_mode = "Kill"
    /\ Unwrap(last.pre.selected_process).name = N_sshd
    /\ last.calls[1].errno = "EPERM: Operation not permitted"
    /\ Unwrap(toast).is_error
    /\ selected_process = None
    /\ confirmation_mode = "None"

\* C12: there is one pending target. A permitted kill request, or a click on a
\* displayed row, that arrives while a target is pending puts its own record in the
\* place of the pending one and makes no OS call; no other message but confirm and
\* cancel changes the pending target; and a confirm sends one signal, to the target
\* pending when it arrives, and to no other process.
C12_PendingTargetIsReplaced ==
    /\ (PolicyPassed /\ IsSome(last.pre.selected_process)) =>
          (selected_process = Requested /\ last.calls = <<>> /\ os = last.pre.os)
    /\ (IsUpdate({"SelectProcess"}) /\ IsSome(last.pre.selected_process)
          /\ IsSome(Find(last.pre.processes, Unwrap(last.msg.sel)))) =>
          /\ selected_process = Find(last.pre.processes, Unwrap(last.msg.sel))
          /\ confirmation_mode = last.pre.confirmation_mode
          /\ last.calls = <<>>
          /\ os = last.pre.os
    /\ IsUpdate({"RefreshProcesses", "ToggleShowAll", "SortBy", "UpdateSearch"}) =>
          (selected_process = last.pre.selected_process /\ LastKills = <<>>)
    /\ Confirmed =>
          /\ Len(LastKills) = 1
          /\ LastKills[1].target = Unwrap(last.pre.selected_process).pid
          /\ LastKills[1].hit \subseteq {Unwrap(last.pre.selected_process).pid}
          /\ DOMAIN last.pre.os \ DOMAIN os \subseteq {Unwrap(last.pre.selected_process).pid}

C12_Witness ==
    /\ IsUpdate({"SelectProcess"})
    /\ last.pre.confirmation_mode = "Kill"
    /\ Unwrap(last.pre.selected_process).pid = 2
    /\ Unwrap(selected_process).pid = 3
    /\ confirmation_mode = "Kill"
    /\ last.calls = <<>>
    /\ 2 \in DOMAIN os

\* a get_processes call that returned, with the given sort key
Listed(key) == last.op = "get_processes" /\ last.ret = Ok /\ last.msg.sort = key
ListedAny == last.op = "get_processes" /\ last.ret = Ok
\* the place of pid in the order the HashMap was iterated in
IterPos(pid) == CHOOSE i \in 1..Len(last.msg.text) : last.msg.text[i] = pid
\* rec is the record of the process the table holds at rec.pid
BuiltFrom(rec, table) ==
    /\ rec.pid \in DOMAIN table
    /\ rec.name = table[rec.pid].name
    /\ rec.cpu_usage = table[rec.pid].cpu_usage
    /\ rec.memory = table[rec.pid].memory
    /\ rec.status = table[rec.pid].status
\* is_system as documented: a service name or a prefixed variant of one, or a critical name
Classified(rec) ==
    /\ rec.is_system = (\/ \E i \in 1..Len(system_services) : StartsWith(rec.name, system_services[i])
                        \/ rec.name \in CriticalSet)
    /\ rec.name \in {N_sshd, N_sshd_s, N_logind, N_init, N_systemd} => rec.is_system
    /\ rec.name \in {N_initd, N_SSHD, N_myapp, N_MyApp, N_other} => ~rec.is_system
    /\ can_kill_process(rec).kind = "Protected" => rec.is_system

\* C13: in every record returned by get_processes or get_process_by_pid, is_system is
\* true exactly when the name starts with an entry of the system-service list or equals
\* an entry of the critical-process set; so a name can_kill_process protects always
\* has is_system true (and a service such as sshd-session has is_system true without
\* being protected).
C13_IsSystemClassification ==
    /\ ListedAny => \A i \in 1..Len(last.out) : Classified(last.out[i])
    /\ (last.op = "get_process_by_pid" /\ IsSome(last.out)) => Classified(Unwrap(last.out))

C13_Witness ==
    /\ ListedAny
    /\ \E i \in 1..Len(last.out) :
          /\ last.out[i].name = N_sshd_s
          /\ last.out[i].is_system
          /\ can_kill_process(last.out[i]) = Ok
    /\ \E i \in 1..Len(last.out) : last.out[i].name = N_initd /\ ~last.out[i].is_system

\* C14: get_processes(SortBy::Pid) returns the records in strictly ascending pid order
\* (so no pid twice), one record for each process of the OS table as it is at the
\* refresh this call makes.
C14_PidSortStrictlyAscending ==
    Listed("Pid") =>
        /\ \A i, j \in 1..Len(last.out) : i < j => last.out[i].pid < last.out[j].pid
        /\ PidsOf(last.out) = DOMAIN last.pre.os
        /\ Len(last.out) = Cardinality(DOMAIN last.pre.os)
        /\ system = last.pre.os

C14_Witness ==
    /\ Listed("Pid")
    /\ DOMAIN last.pre.system # DOMAIN last.pre.os
    /\ Len(last.out) = 2
    /\ last.msg.text[1] > last.msg.text[2]
    /\ last.out[1].pid < last.out[2].pid

\* C15: get_processes(SortBy::Name) returns the records in ascending order of the
\* lower-cased name, and records whose names differ only in case stay in the order in
\* which they were collected.
C15_NameSortCaseFoldedStable ==
    Listed("Name") =>
        \A i, j \in 1..Len(last.out) : i < j =>
            /\ StrCmp(ToLower(last.out[i].name), ToLower(last.out[j].name)) <= 0
            /\ ToLower(last.out[i].name) = ToLower(last.out[j].name)
                  => IterPos(last.out[i].pid) < IterPos(last.out[j].pid)

C15_Witness ==
    /\ Listed("Name")
    /\ Len(last.out) = 3
    /\ last.out[1].name = N_myapp
    /\ last.out[2].name = N_MyApp
    /\ last.out[3].name = N_other
    /\ last.msg.text[1] = 2

\* C16: get_processes(SortBy::Cpu) returns the records in non-increasing cpu_usage
\* order, get_processes(SortBy::Memory) in non-increasing memory order, and with every
\* sort key the result holds each record built from the refreshed table once and
\* nothing else.
C16_CpuMemoryDescendingPermutation ==
    /\ Listed("Cpu") =>
          \A i, j \in 1..Len(last.out) : i < j => last.out[i].cpu_usage >= last.out[j].cpu_usage
    /\ Listed("Memory") =>
          \A i, j \in 1..Len(last.out) : i < j => last.out[i].memory >= last.out[j].memory
    /\ ListedAny =>
          /\ Len(last.out) = Cardinality(DOMAIN last.pre.os)
          /\ \A i \in 1..Len(last.out) : BuiltFrom(last.out[i], last.pre.os)
          /\ \A p \in DOMAIN last.pre.os : \E i \in 1..Len(last.out) : last.out[i].pid = p
          /\ PidsOf(last.out) = {last.msg.text[i] : i \in 1..Len(last.msg.text)}

C16_Witness ==
    /\ Listed("Cpu")
    /\ Len(last.out) = 3
    /\ last.msg.text[3] = 3
    /\ last.out[1].name = N_myapp
    /\ last.out[1].cpu_usage = 875
    /\ last.out[2].cpu_usage = 30

\* C17: two get_processes calls with no process creation or exit between them return
\* the same set of pids, whatever the cpu_usage values do; and the records of one call
\* all come from the one refresh pass that call makes: its pid set is the OS live set
\* at that refresh.
C17_ConsecutiveSnapshotsAgree ==
    /\ last.op = "get_processes_twice" =>
          /\ PidsOf(last.out[1]) = PidsOf(last.out[2])
          /\ Len(last.out[1]) = Len(last.out[2])
          /\ PidsOf(last.out[2]) = DOMAIN os
          /\ \A i \in 1..Len(last.out[2]) : BuiltFrom(last.out[2][i], os)
          /\ Len(last.calls) = 2
    /\ ListedAny =>
          /\ Len(last.calls) = 1
          /\ last.calls[1].call = "refresh"
          /\ PidsOf(last.out) = DOMAIN last.pre.os
          /\ \A i \in 1..Len(last.out) : BuiltFrom(last.out[i], last.pre.os)

C17_Witness ==
    /\ last.op = "get_processes_twice"
    /\ Len(last.out[1]) = 2
    /\ PidsOf(last.out[1]) = PidsOf(last.out[2])
    /\ last.out[1][1].cpu_usage # last.out[2][1].cpu_usage
    /\ DOMAIN last.pre.system # DOMAIN last.pre.os

\* C18: no core operation ends the caller's process: get_processes, get_process_by_pid,
\* can_kill_process, kill_process and force_kill_process return a value or a
\* ProcessError for every input and every table content, a NaN cpu_usage included.
C18_CoreCallsReturn ==
    last.op \in {"get_processes", "get_processes_twice", "get_process_by_pid",
                 "can_kill_process", "kill_process", "force_kill_process", "refresh"}
        => last.ret.kind \in {"Ok", "NotFound", "PermissionDenied", "Protected",
                              "SignalFailed", "Unknown"}

\* the messages both front-ends have
SharedMessages ==
    {MRefreshProcesses, MConfirmKill, MConfirmForceKill, MCancelConfirmation, MClearToast,
     MSelectProcess(None)}
    \cup {MKillProcess(p) : p \in UiPids} \cup {MForceKillProcess(p) : p \in UiPids}
    \cup {MSelectProcess(Some(p)) : p \in UiPids}
    \cup {MToggleShowAll(b) : b \in BOOLEAN} \cup {MSortBy(k) : k \in SortKeys}
    \cup {MUpdateSearch(q) : q \in Queries} \cup {MShowToast(Q_my, b) : b \in BOOLEAN}

\* C19: from equal state and with the same OS behaviour, AppModel::update and
\* StandaloneApp::update end in equal states and make the same OS calls, for every
\* message the two front-ends share.
C19_FrontEndsAgree ==
    \A m \in SharedMessages : App_update(World, m) = Std_update(World, m)

RefreshDelivered == IsUpdate({"RefreshProcesses"})
\* the displayed list is a list get_processes(sort_by) returns on the table as it is
RefreshIsFresh ==
    /\ system = os
    /\ Len(last.calls) = 1
    /\ last.calls[1].call = "refresh"
    /\ \E r \in get_processes(World, sort_by) :
          processes = IF show_all THEN r.list ELSE Truncate(r.list, TRUNCATE)

\* C20: with the timer subscription and the update loop scheduled fairly,
\* RefreshProcesses is delivered again and again for as long as the front-end runs,
\* whether a confirmation is pending or not, and every delivery replaces the displayed
\* list by a fresh get_processes(sort_by) result.
C20_TimerKeepsRefreshing ==
    /\ []<>RefreshDelivered
    /\ [](RefreshDelivered => RefreshIsFresh)
    /\ (confirmation_mode # "None") ~> RefreshDelivered
    /\ (IsSome(toast) /\ Unwrap(toast).is_error) ~> RefreshDelivered

C20_Witness ==
    /\ RefreshDelivered
    /\ confirmation_mode = "Kill"
    /\ IsSome(selected_process)
    /\ IsSome(toast)
    /\ Unwrap(toast).is_error
    /\ PidsOf(processes) # UiPids
    /\ steps = 0

\* C21: when a confirm message dispatches the signal for the pending record's pid, the
\* process holding that pid in the OS table at that moment has the name of the pending
\* record (the record the policy check passed), also when the original process exited
\* and its pid was given to another process between the request and the confirm.
C21_SignalledIsTheChecked ==
    (Confirmed /\ LastKills # <<>>) =>
        LET rec == Unwrap(last.pre.selected_process) IN
        rec.pid \in DOMAIN last.pre.os => last.pre.os[rec.pid].name = rec.name

\* C22: in every reachable state a confirmation mode is set only while a target is
\* selected, whatever messages arrive, a SelectProcess for a pid that the displayed
\* list does not hold included.
C22_ConfirmationHasTarget == confirmation_mode # "None" => IsSome(selected_process)

\* the confirmation mode a kill request asks for
ModeOf(type) == IF type = "ForceKillProcess" THEN "ForceKill" ELSE "Kill"
SigOf(mode) == IF mode = "ForceKill" THEN "SIGKILL" ELSE "SIGTERM"

\* C23: with confirm messages delivered only as the dialog offers them, the signal sent
\* on confirmation is the kind of the most recent permitted kill request: a permitted
\* request sets the pending mode to its own kind, nothing else sets a pending mode, and
\* the confirm step sends SIGTERM for a pending Kill and SIGKILL for a pending ForceKill.
C23_ConfirmedSignalMatchesRequest ==
    /\ [](PolicyPassed => confirmation_mode = ModeOf(last.msg.type))
    /\ [][confirmation_mode' \notin {confirmation_mode, "None"} =>
            /\ last'.op = "update"
            /\ last'.msg.type \in {"KillProcess", "ForceKillProcess"}
            /\ confirmation_mode' = ModeOf(last'.msg.type)
            /\ IsSome(Find(processes, last'.msg.pid))
            /\ Unwrap(Find(processes, last'.msg.pid)).name \notin CriticalSet]_vars
    /\ []((Confirmed /\ LastKills # <<>>) =>
            /\ last.pre.confirmation_mode # "None"
            /\ Len(LastKills) = 1
            /\ LastKills[1].sig = SigOf(last.pre.confirmation_mode))

C23_Witness ==
    /\ Confirmed
    /\ last.msg.type = "ConfirmForceKill"
    /\ last.pre.confirmation_mode = "ForceKill"
    /\ Len(LastKills) = 1
    /\ LastKills[1].sig = "SIGKILL"
    /\ LastKills[1].hit # {}

\* C24: RefreshProcesses replaces the displayed list and nothing else: selected_process,
\* confirmation_mode, toast, sort_by, show_all and search_query are as before, the only
\* OS call is the refresh (no signal), also when the pending target's pid is not in the
\* new list.
C24_RefreshOnlyReplacesList ==
    IsUpdate({"RefreshProcesses"}) =>
        /\ selected_process = last.pre.selected_process
        /\ confirmation_mode = last.pre.confirmation_mode
        /\ toast = last.pre.toast
        /\ sort_by = last.pre.sort_by
        /\ show_all = last.pre.show_all
        /\ search_query = last.pre.search_query
        /\ LastKills = <<>>
        /\ last.calls = <<RefreshCall>>
        /\ os = last.pre.os

C24_Witness ==
    /\ IsUpdate({"RefreshProcesses"})
    /\ confirmation_mode = "ForceKill"
    /\ IsSome(selected_process)
    /\ Unwrap(selected_process).pid \in PidsOf(last.pre.processes)
    /\ Unwrap(selected_process).pid \notin PidsOf(processes)

\* C26: a kill request for a pid that the displayed list does not hold sets an error
\* toast and does nothing else: no policy check result is shown, no OS call is made
\* (no signal, no refresh), the list, selected_process and confirmation_mode are as
\* before, also when that pid is held by a live (even a critical) process.
C26_UnlistedRequestRejected ==
    (IsKillRequest /\ Requested = None) =>
        /\ toast = Some(Toast(Fl("error-process-not-found", <<>>, "", ""), TRUE))
        /\ Unwrap(toast).is_error
        /\ last.calls = <<>>
        /\ os = last.pre.os
        /\ system = last.pre.system
        /\ processes = last.pre.processes
        /\ selected_process = last.pre.selected_process
        /\ confirmation_mode = last.pre.confirmation_mode

C26_Witness ==
    /\ IsKillRequest
    /\ Requested = None
    /\ last.msg.pid \notin PidsOf(processes)
    /\ confirmation_mode = "Kill"
    /\ IsSome(selected_process)
    /\ IsSome(toast)
    /\ Unwrap(toast).is_error

\* no record of the list belongs before its predecessor under the sort key
Ordered(list, key) == \A i \in 1..(Len(list) - 1) : ~Before(list[i + 1], list[i], key)

\* C25: in every reachable state the displayed list is ordered by the current sort_by
\* and, while show_all is false, holds at most the 10 records of the short list.
C25_ListMatchesViewSettings ==
    /\ Ordered(processes, sort_by)
    /\ ~show_all => Len(processes) <= TRUNCATE

====
